---- MODULE Spec2Model ----
(***************************************************************************)
(* Model of plugins/modules/adguard_rewrite.py: the reconciliation of a    *)
(* desired list of DNS rewrite rules against a list of AdGuard servers.    *)
(* One invocation of the module is a sequential run: for each server one   *)
(* list call, then one add (state=present) or delete (state=absent) call   *)
(* per desired rule that needs it.  Every HTTP call is answered by the     *)
(* environment with status 200, with another status, or by a transport     *)
(* fault; the client turns the last two into an exception.                 *)
(***************************************************************************)
EXTENDS Integers, Sequences, FiniteSets

(* ------------------------------ bounds -------------------------------- *)

\* longest `servers` parameter enumerated
MaxServers == 2

\* longest `rewrites` parameter enumerated
MaxRewrites == 2

(* --------------------------- input universe --------------------------- *)

URLs == {"http://h1", "http://h2"}

Domains == {"x.com"}

Answers == {"1.2.3.4", "5.6.7.8"}

\* a rewrite rule as a server stores it: a domain and an answer
Rules == [domain : Domains, answer : Answers]

\* the keys a dict may carry besides domain and answer, with their values:
\* neither response.json() nor the argument spec of `rewrites` restricts them
Extras == {{}, {<<"enabled", "true">>}}

\* a rewrite as the module handles it: a dict, here its domain, its answer and
\* the set of its other items
Dict(r, x) == [domain |-> r.domain, answer |-> r.answer, extra |-> x]

\* the rule a server reads out of the body of a request
Core(d) == [domain |-> d.domain, answer |-> d.answer]

States == {"present", "absent"}

\* status_code 200 / any other status / requests raised before a response
Replies == {"200", "500", "fault"}

BoundedSeq(S, n) == UNION {[1..k -> S] : k \in 0..n}

\* Python None and a non-None value, as an optional
None == {}

Some(x) == {x}

VARIABLES
  servers,           \* module.params['servers'], as the sequence of their urls
  rewrites,          \* module.params['rewrites']
  state,             \* module.params['state']
  check_mode,        \* module.check_mode, set by the host
  backend,           \* the rewrite set each AdGuard server holds
  reply_keys,        \* the other items each server puts on the entries it lists
  backend0,          \* history: backend when the first run started
  pc,                \* "list", "rules", "return", "main", "done"
  si,                \* 1-based position of the for loop over servers
  ri,                \* 1-based position of the for loop over rewrites
  current_rewrites,  \* the snapshot list_rewrites returned for servers[si]
  changed,           \* manage_rewrites' local
  errors,            \* manage_rewrites' local
  ret,               \* the tuple manage_rewrites returned
  result,            \* what main handed to exit_json / fail_json
  calls,             \* history: every HTTP call of this run, in order
  passes,            \* history: per servers entry, the outcome of its list call
  run,               \* 1 in the first invocation, 2 in the repeated one
  prev               \* result of the first invocation, once repeated

vars == <<servers, rewrites, state, check_mode, backend, reply_keys, backend0, pc, si, ri,
          current_rewrites, changed, errors, ret, result, calls, passes, run,
          prev>>

params == <<servers, rewrites, state, check_mode, reply_keys>>

(* ------------------------------ helpers ------------------------------- *)

NoRule == [domain |-> "", answer |-> "", extra |-> {}]

NoRet == [is_error |-> FALSE, has_changed |-> FALSE, errors |-> None]

NoResult == [rc |-> "none"]

\* dict == dict, as `in` / `not in` on a list of dicts applies it: the same
\* keys with the same values, whatever the keys are
Match(a, b) ==
  /\ a.domain = b.domain
  /\ a.answer = b.answer
  /\ a.extra = b.extra

\* rewrite in current_rewrites
Contains(current, rewrite) == \E c \in current : Match(c, rewrite)

\* response.status_code != 200 raises; so does a transport fault
Raises(reply) == reply # "200"

\* the json= body of the add / delete request for position idx
Payload_FromSnapshot(idx) ==
  IF \E c \in current_rewrites : c.domain = rewrites[idx].domain
  THEN CHOOSE c \in current_rewrites : c.domain = rewrites[idx].domain
  ELSE rewrites[idx]

Payload(idx) == rewrites[idx]

\* what a server that accepted the request does to its rewrite set
ApplyAdd(rules, rewrite) == rules \cup {Core(rewrite)}

ApplyDelete(rules, rewrite) == rules \ {Core(rewrite)}

\* response.json() of a successful list call: the entries as the server
\* writes them, returned as they are
Fetch(url) == {Dict(r, reply_keys[url]) : r \in backend[url]}

\* one HTTP request of the client, as the history keeps it: the operation, the
\* servers entry and url it went to, the position and rule it was for, and
\* whether the client method returned (ok) or raised
Call(op, idx, rule, reply) ==
  [op |-> op, entry |-> si, url |-> servers[si], idx |-> idx, rule |-> rule,
   ok |-> ~Raises(reply)]

\* the f-string appended to errors: it names the operation, the server url
\* and (for add / delete) the rule
ErrorMsg(op, url, rule) == [op |-> op, url |-> url, rule |-> rule]

\* where the for loop over servers goes after entry i
NextServer(i) == IF i + 1 > Len(servers) THEN "return" ELSE "list"

\* where the for loop over rewrites goes after position j (the handler returns
\* when the list is exhausted, and the server loop advances)
AfterRule(j) ==
  IF j + 1 > Len(rewrites)
  THEN /\ si' = si + 1
       /\ ri' = 1
       /\ pc' = NextServer(si)
  ELSE /\ si' = si
       /\ ri' = j + 1
       /\ pc' = "rules"

(* ------------------------------- Init --------------------------------- *)

\* the state when main calls manage_rewrites, the host having set check_mode
Setup(cm) ==
  /\ servers \in BoundedSeq(URLs, MaxServers)
  \* the two urls are interchangeable: the first one listed is h1
  /\ Len(servers) > 0 => servers[1] = "http://h1"
  \* the desired dicts are as documented, with the keys domain and answer;
  \* the servers of one run list their entries with the same other items
  /\ rewrites \in BoundedSeq({Dict(r, {}) : r \in Rules}, MaxRewrites)
  /\ \E y \in Extras : reply_keys = [u \in URLs |-> y]
  /\ backend \in [URLs -> SUBSET Rules]
  /\ state \in States
  /\ check_mode = cm
  \* a server the run never addresses plays no part: it holds nothing
  /\ \A u \in URLs : (\A i \in DOMAIN servers : servers[i] # u) => backend[u] = {}
  /\ backend0 = backend
  /\ pc = IF Len(servers) = 0 THEN "return" ELSE "list"
  /\ si = 1
  /\ ri = 1
  /\ current_rewrites = {}
  /\ changed = FALSE
  /\ errors = <<>>
  /\ ret = NoRet
  /\ result = NoResult
  /\ calls = <<>>
  /\ passes = <<>>
  /\ run = 1
  /\ prev = NoResult

\* an ordinary invocation
Init == Setup(FALSE)

\* an invocation in check mode (--check)
InitCheckMode == Setup(TRUE)

(* ------------------------- manage_rewrites ---------------------------- *)

\* list_rewrites returned: the snapshot is bound, the handler for `state` runs
ListOk(reply) ==
  /\ pc = "list"
  /\ ~Raises(reply)
  /\ current_rewrites' = Fetch(servers[si])
  /\ calls' = Append(calls, Call("list", 0, NoRule, reply))
  /\ passes' = Append(passes, [ok |-> TRUE, snap |-> current_rewrites'])
  /\ AfterRule(0)
  /\ UNCHANGED <<params, backend, backend0, changed, errors, ret, result, run,
                 prev>>

\* list_rewrites raised: one error, `continue`
ListFailed_NoContinue(reply) ==
  /\ pc = "list"
  /\ Raises(reply)
  /\ errors' = Append(errors, ErrorMsg("list", servers[si], NoRule))
  /\ calls' = Append(calls, Call("list", 0, NoRule, reply))
  /\ passes' = Append(passes, [ok |-> FALSE, snap |-> {}])
  /\ current_rewrites' = {}
  /\ AfterRule(0)
  /\ UNCHANGED <<params, backend, backend0, changed, ret, result, run, prev>>

ListFailed(reply) ==
  /\ pc = "list"
  /\ Raises(reply)
  /\ errors' = Append(errors, ErrorMsg("list", servers[si], NoRule))
  /\ calls' = Append(calls, Call("list", 0, NoRule, reply))
  /\ passes' = Append(passes, [ok |-> FALSE, snap |-> {}])
  /\ si' = si + 1
  /\ pc' = NextServer(si)
  /\ UNCHANGED <<params, backend, backend0, ri, current_rewrites, changed, ret,
                 result, run, prev>>

(* ----------------- handle_present_state / handle_absent_state ---------- *)

\* `if rewrite not in current_rewrites`
NeedsAdd(rewrite, current) == ~Contains(current, rewrite)

\* `if rewrite in current_rewrites`
NeedsDelete(rewrite, current) == Contains(current, rewrite)

\* add_rewrite returned: changed = True.  A refreshed snapshot is what the
\* code does not keep: current_rewrites stays as fetched.
AddOk_Refresh(reply) ==
  /\ pc = "rules"
  /\ state = "present"
  /\ NeedsAdd(rewrites[ri], current_rewrites)
  /\ ~Raises(reply)
  /\ calls' = Append(calls, Call("add", ri, Payload(ri), reply))
  /\ backend' = [backend EXCEPT ![servers[si]] = ApplyAdd(@, Payload(ri))]
  /\ current_rewrites' = current_rewrites \cup {Payload(ri)}
  /\ changed' = TRUE
  /\ AfterRule(ri)
  /\ UNCHANGED <<params, backend0, errors, ret, result, passes, run, prev>>

AddOk(reply) ==
  /\ pc = "rules"
  /\ state = "present"
  /\ NeedsAdd(rewrites[ri], current_rewrites)
  /\ ~Raises(reply)
  /\ calls' = Append(calls, Call("add", ri, Payload(ri), reply))
  /\ backend' = [backend EXCEPT ![servers[si]] = ApplyAdd(@, Payload(ri))]
  /\ changed' = TRUE
  /\ AfterRule(ri)
  /\ UNCHANGED <<params, backend0, current_rewrites, errors, ret, result,
                 passes, run, prev>>

\* add_rewrite raised: one error, the loop goes on with the next rewrite
AddFailed_Abort(reply) ==
  /\ pc = "rules"
  /\ state = "present"
  /\ NeedsAdd(rewrites[ri], current_rewrites)
  /\ Raises(reply)
  /\ calls' = Append(calls, Call("add", ri, Payload(ri), reply))
  /\ errors' = Append(errors, ErrorMsg("add", servers[si], Payload(ri)))
  /\ AfterRule(Len(rewrites))
  /\ UNCHANGED <<params, backend, backend0, current_rewrites, changed, ret,
                 result, passes, run, prev>>

AddFailed(reply) ==
  /\ pc = "rules"
  /\ state = "present"
  /\ NeedsAdd(rewrites[ri], current_rewrites)
  /\ Raises(reply)
  /\ calls' = Append(calls, Call("add", ri, Payload(ri), reply))
  /\ errors' = Append(errors, ErrorMsg("add", servers[si], Payload(ri)))
  /\ AfterRule(ri)
  /\ UNCHANGED <<params, backend, backend0, current_rewrites, changed, ret,
                 result, passes, run, prev>>

\* the rewrite is in the snapshot: nothing to do for it
SkipPresent ==
  /\ pc = "rules"
  /\ state = "present"
  /\ ~NeedsAdd(rewrites[ri], current_rewrites)
  /\ AfterRule(ri)
  /\ UNCHANGED <<params, backend, backend0, current_rewrites, changed, errors,
                 ret, result, calls, passes, run, prev>>

\* delete_rewrite returned: changed = True
DeleteOk_NoChanged(reply) ==
  /\ pc = "rules"
  /\ state = "absent"
  /\ NeedsDelete(rewrites[ri], current_rewrites)
  /\ ~Raises(reply)
  /\ calls' = Append(calls, Call("delete", ri, Payload(ri), reply))
  /\ backend' = [backend EXCEPT ![servers[si]] = ApplyDelete(@, Payload(ri))]
  /\ AfterRule(ri)
  /\ UNCHANGED <<params, backend0, current_rewrites, changed, errors, ret,
                 result, passes, run, prev>>

DeleteOk(reply) ==
  /\ pc = "rules"
  /\ state = "absent"
  /\ NeedsDelete(rewrites[ri], current_rewrites)
  /\ ~Raises(reply)
  /\ calls' = Append(calls, Call("delete", ri, Payload(ri), reply))
  /\ backend' = [backend EXCEPT ![servers[si]] = ApplyDelete(@, Payload(ri))]
  /\ changed' = TRUE
  /\ AfterRule(ri)
  /\ UNCHANGED <<params, backend0, current_rewrites, errors, ret, result,
                 passes, run, prev>>

\* delete_rewrite raised: one error, the loop goes on with the next rewrite
DeleteFailed(reply) ==
  /\ pc = "rules"
  /\ state = "absent"
  /\ NeedsDelete(rewrites[ri], current_rewrites)
  /\ Raises(reply)
  /\ calls' = Append(calls, Call("delete", ri, Payload(ri), reply))
  /\ errors' = Append(errors, ErrorMsg("delete", servers[si], Payload(ri)))
  /\ AfterRule(ri)
  /\ UNCHANGED <<params, backend, backend0, current_rewrites, changed, ret,
                 result, passes, run, prev>>

\* the rewrite is not in the snapshot: nothing to do for it
SkipAbsent ==
  /\ pc = "rules"
  /\ state = "absent"
  /\ ~NeedsDelete(rewrites[ri], current_rewrites)
  /\ AfterRule(ri)
  /\ UNCHANGED <<params, backend, backend0, current_rewrites, changed, errors,
                 ret, result, calls, passes, run, prev>>

(* ------------------------ return and main ----------------------------- *)

\* `if errors: return True, changed, errors` / `return False, changed, None`
Return ==
  /\ pc = "return"
  /\ ret' = IF errors # <<>>
            THEN [is_error |-> TRUE, has_changed |-> changed,
                  errors |-> Some(errors)]
            ELSE [is_error |-> FALSE, has_changed |-> changed, errors |-> None]
  /\ pc' = "main"
  /\ UNCHANGED <<params, backend, backend0, si, ri, current_rewrites, changed,
                 errors, result, calls, passes, run, prev>>

\* module.fail_json(msg=..., errors=errors): no `changed` keyword is passed
MainFail ==
  /\ pc = "main"
  /\ ret.is_error
  /\ result' = [rc |-> "fail_json", failed |-> TRUE,
                msg |-> "Error managing rewrites", errors |-> ret.errors]
  /\ pc' = "done"
  /\ UNCHANGED <<params, backend, backend0, si, ri, current_rewrites, changed,
                 errors, ret, calls, passes, run, prev>>

\* module.exit_json(changed=has_changed, msg=msg, errors=errors)
MainExit ==
  /\ pc = "main"
  /\ ~ret.is_error
  /\ result' = [rc |-> "exit_json", failed |-> FALSE,
                changed |-> ret.has_changed,
                msg |-> IF ret.has_changed THEN "rewrites modified"
                                           ELSE "no changes needed",
                errors |-> ret.errors]
  /\ pc' = "done"
  /\ UNCHANGED <<params, backend, backend0, si, ri, current_rewrites, changed,
                 errors, ret, calls, passes, run, prev>>

\* the host runs the task a second time with the same parameters, after a
\* first invocation that reported success; the servers keep what they hold
Rerun ==
  /\ pc = "done"
  /\ run = 1
  /\ ~result.failed
  /\ run' = 2
  /\ prev' = result
  /\ pc' = IF Len(servers) = 0 THEN "return" ELSE "list"
  /\ si' = 1
  /\ ri' = 1
  /\ current_rewrites' = {}
  /\ changed' = FALSE
  /\ errors' = <<>>
  /\ ret' = NoRet
  /\ result' = NoResult
  /\ calls' = <<>>
  /\ passes' = <<>>
  /\ UNCHANGED <<params, backend, backend0>>

(* --------------------------- specification ---------------------------- *)

Next ==
  \/ \E reply \in Replies : ListOk(reply)
  \/ \E reply \in Replies : ListFailed(reply)
  \/ \E reply \in Replies : AddOk(reply)
  \/ \E reply \in Replies : AddFailed(reply)
  \/ SkipPresent
  \/ \E reply \in Replies : DeleteOk(reply)
  \/ \E reply \in Replies : DeleteFailed(reply)
  \/ SkipAbsent
  \/ Return
  \/ MainFail
  \/ MainExit

Spec == Init /\ [][Next]_vars

NextRerun == Next \/ Rerun

SpecRerun == Init /\ [][NextRerun]_vars

SpecCheckMode == InitCheckMode /\ [][Next]_vars

(* ------------------- vocabulary of the properties --------------------- *)

Range(s) == {s[i] : i \in DOMAIN s}

Final == pc \in {"return", "main", "done"}

IsMutation(c) == c.op \in {"add", "delete"}

IsFailed(c) == ~c.ok

IsListError(m) == m.op = "list"

IsFailedList(c) == c.op = "list" /\ ~c.ok

\* the calls of operation op made in the pass of servers entry e for position j
CallsAt(e, j, op) ==
  {k \in DOMAIN calls :
     calls[k].entry = e /\ calls[k].idx = j /\ calls[k].op = op}

MutationCalls == {k \in DOMAIN calls : IsMutation(calls[k])}

\* the loop of entry e has gone past position j of the desired list
Evaluated(e, j) == e < si \/ (e = si /\ pc = "rules" /\ j < ri)

\* exact structural match against some rule of a snapshot
ExactIn(rule, snap) ==
  \E c \in snap : c.domain = rule.domain /\ c.answer = rule.answer

\* the rule is an item of the snapshot, equal to it as a whole dict
InSnapshot(rule, snap) == rule \in snap

\* position j needs a mutation in the pass of entry e, whose list call succeeded
Wanted(e, j) ==
  IF state = "present" THEN ~InSnapshot(rewrites[j], passes[e].snap)
                       ELSE InSnapshot(rewrites[j], passes[e].snap)

\* the rules the desired list names, as a server stores them
DesiredRules == {Core(d) : d \in Range(rewrites)}

MutationOp == IF state = "present" THEN "add" ELSE "delete"

\* the changed value the host sees: the key of the result, and false for a
\* result that carries no such key
ReportedChanged ==
  IF "changed" \in DOMAIN result THEN result.changed ELSE FALSE

\* the messages a sequence of failed calls leaves, one per call
MessagesOf(cs) ==
  [k \in 1..Len(cs) |-> [op |-> cs[k].op, url |-> cs[k].url, rule |-> cs[k].rule]]

(* ------------------------------ claims -------------------------------- *)

\* C1: a servers entry whose list call failed gets no add and no delete call,
\* leaves exactly one list error naming its url, and every later entry still
\* gets its own list call and, when that succeeds, its reconciliation pass.
C1_ListFailureSkipsOnlyThatServer ==
  /\ \A e \in DOMAIN passes :
       ~passes[e].ok =>
         /\ \A k \in DOMAIN calls : calls[k].entry = e => calls[k].op = "list"
         /\ \A f \in (e + 1)..Len(servers) :
              f < si =>
                /\ Cardinality(CallsAt(f, 0, "list")) = 1
                /\ f \in DOMAIN passes
                /\ passes[f].ok =>
                     \A j \in DOMAIN rewrites :
                       Wanted(f, j) => CallsAt(f, j, MutationOp) # {}
  /\ SelectSeq(errors, IsListError) = MessagesOf(SelectSeq(calls, IsFailedList))
  /\ \A k \in DOMAIN calls : calls[k].url = servers[calls[k].entry]
  /\ Final => si = Len(servers) + 1 /\ Len(passes) = Len(servers)

C1_Witness ==
  /\ pc = "done"
  /\ Len(servers) = 2
  /\ ~passes[1].ok
  /\ passes[2].ok
  /\ \E k \in MutationCalls : calls[k].entry = 2 /\ calls[k].ok

\* C2: a run that ends with a non-empty error list reports failure, and the
\* failure result carries the accumulated changed value and the error list.
C2_FailureExposesChangedAndErrors ==
  (pc = "done" /\ errors # <<>>) =>
    /\ result.failed
    /\ result.errors = Some(errors)
    /\ ReportedChanged = changed

\* C3: a failed add or delete does not stop the pass: every later position of
\* the desired list that needs a mutation still gets its call, every failed
\* call leaves one error naming the server url and the rule, and changed is
\* true when any mutation of the run succeeded.
C3_FailedMutationDoesNotStopPass ==
  /\ \A k \in MutationCalls :
       ~calls[k].ok =>
         \A j \in (calls[k].idx + 1)..Len(rewrites) :
           (Evaluated(calls[k].entry, j) /\ Wanted(calls[k].entry, j)) =>
             Cardinality(CallsAt(calls[k].entry, j, calls[k].op)) = 1
  /\ errors = MessagesOf(SelectSeq(calls, IsFailed))
  /\ (\E k \in MutationCalls : calls[k].ok) => changed

C3_Witness ==
  /\ pc = "done"
  /\ changed
  /\ result.failed
  /\ \E k1, k2 \in MutationCalls :
       /\ k1 < k2
       /\ calls[k1].entry = calls[k2].entry
       /\ ~calls[k1].ok
       /\ calls[k2].ok

\* C4: changed is true exactly when some add or delete call of the run
\* succeeded, whatever failed or did nothing afterwards, and that is the value
\* manage_rewrites returns.
C4_ChangedIffSomeMutationSucceeded ==
  /\ changed <=> (\E k \in MutationCalls : calls[k].ok)
  /\ pc \in {"main", "done"} => ret.has_changed = changed

C4_Witness ==
  /\ pc = "done"
  /\ ret.has_changed
  /\ \E k1, k2 \in DOMAIN calls :
       /\ k1 < k2
       /\ IsMutation(calls[k1]) /\ calls[k1].ok
       /\ IsFailedList(calls[k2])

\* C5: with state=present, in the pass of every servers entry whose list call
\* succeeded, a desired rule gets an add call if and only if no rule of the
\* fetched snapshot equals it in domain and answer; no delete call is issued.
C5_PresentAddsExactlyMissingRules ==
  state = "present" =>
    /\ \A e \in DOMAIN passes : \A j \in DOMAIN rewrites :
         (passes[e].ok /\ Evaluated(e, j)) =>
           /\ Cardinality(CallsAt(e, j, "add"))
                = IF ExactIn(rewrites[j], passes[e].snap) THEN 0 ELSE 1
           /\ \A k \in CallsAt(e, j, "add") : calls[k].rule = rewrites[j]
    /\ \A k \in DOMAIN calls : calls[k].op # "delete"

\* C6: with state=absent, in the pass of every servers entry whose list call
\* succeeded, a desired rule gets a delete call if and only if the fetched
\* snapshot holds an exact match; a rule whose delete succeeded is absent from
\* that server afterwards; no add call is issued.
C6_AbsentDeletesExactlyPresentRules ==
  state = "absent" =>
    /\ \A e \in DOMAIN passes : \A j \in DOMAIN rewrites :
         (passes[e].ok /\ Evaluated(e, j)) =>
           /\ Cardinality(CallsAt(e, j, "delete"))
                = IF ExactIn(rewrites[j], passes[e].snap) THEN 1 ELSE 0
           /\ \A k \in CallsAt(e, j, "delete") : calls[k].rule = rewrites[j]
    /\ \A k \in DOMAIN calls :
         (calls[k].op = "delete" /\ calls[k].ok) =>
           Core(calls[k].rule) \notin backend[calls[k].url]
    /\ \A k \in DOMAIN calls : calls[k].op # "add"

\* C7: every add or delete call carries a rule of the desired list, and the
\* rules a server holds that are not in the desired list stay as they were.
C7_UnlistedRulesUntouched ==
  /\ \A k \in MutationCalls : calls[k].rule \in Range(rewrites)
  /\ \A u \in URLs :
       backend[u] \ DesiredRules = backend0[u] \ DesiredRules

C7_Witness ==
  /\ pc = "done"
  /\ \E k1, k2 \in MutationCalls :
       /\ calls[k1].ok
       /\ ~calls[k2].ok
       /\ backend0[calls[k1].url] \ DesiredRules # {}
       /\ backend[calls[k1].url] # backend0[calls[k1].url]

\* every addressed server holds all desired rules (present) or none (absent)
HoldsDesired ==
  \A e \in DOMAIN servers :
    IF state = "present" THEN DesiredRules \subseteq backend[servers[e]]
                         ELSE DesiredRules \cap backend[servers[e]] = {}

\* C8: after a run without errors every server holds the desired state, and
\* the run that follows with the same parameters issues only list calls, no
\* add or delete call, and returns changed=false with errors null.
C8_RerunIsNoOpAndReportsNoErrors ==
  run = 2 =>
    /\ HoldsDesired
    /\ MutationCalls = {}
    /\ pc = "done" =>
         /\ result.rc = "exit_json"
         /\ result.changed = FALSE
         /\ result.errors = None

\* C9: the membership check reads the snapshot fetched by the pass's list
\* call, which the pass never updates: a rule that is no item of the snapshot
\* gets one add call per occurrence in the desired list, a rule that is an
\* item of it one delete call per occurrence, whatever the earlier calls
\* returned.
C9_SnapshotIsNotUpdatedWithinPass ==
  /\ pc = "rules" => (passes[si].ok /\ current_rewrites = passes[si].snap)
  /\ \A e \in DOMAIN passes : \A r \in Range(rewrites) :
       passes[e].ok =>
         Cardinality({k \in MutationCalls :
                        calls[k].entry = e /\ calls[k].rule = r})
           = IF (state = "present") = InSnapshot(r, passes[e].snap)
             THEN 0
             ELSE Cardinality({j \in DOMAIN rewrites :
                                 rewrites[j] = r /\ Evaluated(e, j)})

C9_Witness ==
  /\ pc = "done"
  /\ Len(rewrites) >= 2
  /\ rewrites[1] = rewrites[2]
  /\ \E k1, k2 \in MutationCalls :
       /\ k1 < k2
       /\ calls[k1].entry = calls[k2].entry
       /\ calls[k1].op = "add"
       /\ calls[k1].ok
       /\ calls[k2].op = "add"
       /\ calls[k2].rule = calls[k1].rule

\* C10: invoked in check mode, the module issues no add and no delete call,
\* and every server holds after the run what it held before.
C10_CheckModeIssuesNoMutation ==
  check_mode => (MutationCalls = {} /\ backend = backend0)

====
